---- MODULE Spec2Model ----
(***************************************************************************)
(* Model of src/pipeline.py: the data pipeline's query functions over a    *)
(* small relational store, the CSV output of their results, and the        *)
(* control flow of main.                                                   *)
(*                                                                         *)
(* Money is held in whole cents (UnitPrice 0.99 is 99).  Every product     *)
(* UnitPrice * Quantity is then a whole number of cents, so SQL's          *)
(* ROUND(x, 2) leaves the sums unchanged and is not written out.           *)
(* Text is a sequence of fragments: every digit and punctuation mark that  *)
(* a conversion produces or inspects is a fragment of its own, a name such *)
(* as "Rock" is a single fragment.                                         *)
(***************************************************************************)
EXTENDS Integers, Sequences, FiniteSets, TLC

\* Bounds of the model.
MaxItems == 3
MaxN == 3

\* SQL NULL / Python None in a text column.
NULL == "NULL"

(***************************************************************************)
(* Text and number conversions                                             *)
(***************************************************************************)
Range(s) == {s[i] : i \in DOMAIN s}

Digits == <<"0", "1", "2", "3", "4", "5", "6", "7", "8", "9">>

DigitChar(n) == Digits[n + 1]

IsDigit(c) == \E i \in DOMAIN Digits : Digits[i] = c

DigitVal(c) == (CHOOSE i \in DOMAIN Digits : Digits[i] = c) - 1

\* str(n) of a non-negative integer: no padding.
RECURSIVE IntToText(_)
IntToText(n) ==
    IF n < 10 THEN <<DigitChar(n)>>
    ELSE IntToText(n \div 10) \o <<DigitChar(n % 10)>>

\* The integer a text of digits denotes ('03' is 3).
RECURSIVE TextToInt(_)
TextToInt(t) ==
    IF t = <<>> THEN 0
    ELSE 10 * TextToInt(SubSeq(t, 1, Len(t) - 1)) + DigitVal(t[Len(t)])

IsIntText(t) == t # <<>> /\ \A i \in DOMAIN t : IsDigit(t[i])

\* strftime('%Y', date): the year, four digits.
strftime_Y(date) == IntToText(date.year)

\* strftime('%m', date): the month, two digits, zero padded.
strftime_m(date) == <<DigitChar(date.month \div 10), DigitChar(date.month % 10)>>

\* repr of a float holding an amount of money, from its cents: 198 is
\* "1.98", 200 is "2.0", 190 is "1.9".
FloatToText(c) ==
    IntToText(c \div 100) \o <<".">> \o
        (IF c % 10 = 0 THEN <<DigitChar((c % 100) \div 10)>>
         ELSE <<DigitChar((c % 100) \div 10), DigitChar(c % 10)>>)

IsFloatText(t) ==
    \E p \in DOMAIN t :
        /\ t[p] = "."
        /\ IsIntText(SubSeq(t, 1, p - 1))
        /\ IsIntText(SubSeq(t, p + 1, Len(t)))
        /\ Len(t) - p <= 2

\* The cents a float text denotes.
TextToFloat(t) ==
    LET p == CHOOSE q \in DOMAIN t : t[q] = "."
        frac == SubSeq(t, p + 1, Len(t))
    IN  100 * TextToInt(SubSeq(t, 1, p - 1))
          + (IF Len(frac) = 1 THEN 10 * TextToInt(frac) ELSE TextToInt(frac))

(***************************************************************************)
(* DataFrame cells and frames                                              *)
(***************************************************************************)
IntCell(n) == [kind |-> "int", num |-> n, txt |-> <<>>]

FloatCell(c) == [kind |-> "float", num |-> c, txt |-> <<>>]

TextCell(t) == [kind |-> "text", num |-> 0, txt |-> t]

\* A pandas Period of frequency 'M'; txt is its str(), 'YYYY-MM'.
PeriodCell(t) == [kind |-> "period", num |-> 0, txt |-> t]

\* The RangeIndex 0 .. n-1 of a frame built by read_sql_query or read_csv.
RangeIndex(n) == [i \in 1..n |-> IntCell(i - 1)]

DataFrame(indexName, index, columns, rows) ==
    [indexName |-> indexName, index |-> index, columns |-> columns, rows |-> rows]

NoFrame == DataFrame("none", <<>>, <<>>, <<>>)

\* Position of column c in frame f (0 when f has no such column).
ColumnPos(f, c) ==
    IF \E i \in DOMAIN f.columns : f.columns[i] = c
    THEN CHOOSE i \in DOMAIN f.columns : f.columns[i] = c
    ELSE 0

\* The cells of column c of frame f, row by row.
Column(f, c) == [r \in DOMAIN f.rows |-> f.rows[r][ColumnPos(f, c)]]

\* All orders of the finite set S.
Perms(S) == {s \in [1..Cardinality(S) -> S] : Range(s) = S}

\* Some order of S: the order of a result set SQL does not ORDER BY.
SetToSeq(S) == CHOOSE s \in Perms(S) : TRUE

\* s.head(n)
Head_n(s, n) == SubSeq(s, 1, IF n < Len(s) THEN n ELSE Len(s))

RECURSIVE SumSet(_, _)
\* Sum of f[k] over k in S.
SumSet(f, S) ==
    IF S = {} THEN 0
    ELSE LET k == CHOOSE x \in S : TRUE IN f[k] + SumSet(f, S \ {k})

(***************************************************************************)
(* The relational store.  A dimension table is a function from its primary *)
(* key to its row; invoice_items is the sequence of its rows.  AlbumId and *)
(* GenreId of a track may be NULL, written 0: no album and no genre has    *)
(* the key 0, so a NULL key joins to nothing.                              *)
(***************************************************************************)
InvoiceDateOf(d, k) == d.invoices[d.invoice_items[k].InvoiceId].InvoiceDate

\* A mutant of QuantityOf: COUNT(ii.Quantity) in place of SUM(ii.Quantity).
QuantityOf_count(d) == [k \in DOMAIN d.invoice_items |-> 1]

\* Quantity of every line item.
QuantityOf(d) == [k \in DOMAIN d.invoice_items |-> d.invoice_items[k].Quantity]

\* UnitPrice * Quantity of every line item, in cents.
SalesOf(d) ==
    [k \in DOMAIN d.invoice_items |->
        d.invoice_items[k].UnitPrice * d.invoice_items[k].Quantity]

\* FROM invoice_items ii INNER JOIN invoices i ON i.InvoiceId = ii.InvoiceId
InvoiceJoin(d) ==
    {k \in DOMAIN d.invoice_items : d.invoice_items[k].InvoiceId \in DOMAIN d.invoices}

\* ... INNER JOIN tracks, albums, artists: the line items that reach an artist.
ArtistJoin(d) ==
    {k \in InvoiceJoin(d) :
        LET ii == d.invoice_items[k] IN
        /\ ii.TrackId \in DOMAIN d.tracks
        /\ d.tracks[ii.TrackId].AlbumId \in DOMAIN d.albums
        /\ d.albums[d.tracks[ii.TrackId].AlbumId].ArtistId \in DOMAIN d.artists}

\* ar.Name as ArtistName, of a line item of ArtistJoin.
ArtistNameOf(d, k) ==
    d.artists[d.albums[d.tracks[d.invoice_items[k].TrackId].AlbumId].ArtistId].Name

\* pd.to_datetime(InvoiceDate).dt.to_period('M'): the period 'YYYY-MM'.
to_period_M(date) == PeriodCell(strftime_Y(date) \o <<"-">> \o strftime_m(date))

Min(S) == CHOOSE x \in S : \A y \in S : x <= y

(***************************************************************************)
(* Query functions                                                         *)
(***************************************************************************)
\* groupby('ArtistName'): the group keys; rows whose key is None are dropped.
ArtistGroups(d) == {ArtistNameOf(d, k) : k \in ArtistJoin(d)} \ {NULL}

ArtistGroupItems(d, name) == {k \in ArtistJoin(d) : ArtistNameOf(d, k) = name}

\* .agg(TotalSales=sum, Quantity=sum, Month=first) of one group.
ArtistGroupRow(d, name) ==
    LET S == ArtistGroupItems(d, name) IN
    << FloatCell(SumSet(SalesOf(d), S)),
       IntCell(SumSet(QuantityOf(d), S)),
       to_period_M(InvoiceDateOf(d, Min(S))) >>

\* A mutant of SortTotalSalesDesc: ascending=True.
SortTotalSalesDesc_ascending(d, names) ==
    {s \in Perms(names) :
        \A i, j \in DOMAIN s :
            i < j => ArtistGroupRow(d, s[i])[1].num <= ArtistGroupRow(d, s[j])[1].num}

\* sort_values(by=['TotalSales'], ascending=False): the orders of the group
\* keys it may produce; equal TotalSales may come out in either order.
SortTotalSalesDesc(d, names) ==
    {s \in Perms(names) :
        \A i, j \in DOMAIN s :
            i < j => ArtistGroupRow(d, s[i])[1].num >= ArtistGroupRow(d, s[j])[1].num}

\* get_top_artists_by_sales (the second, active definition): the frames it
\* may return.  ArtistName is the index of the frame, not a column.
get_top_artists_by_sales(num_results, d) ==
    {LET top == Head_n(s, num_results) IN
        DataFrame("ArtistName",
                  [i \in DOMAIN top |-> TextCell(<<top[i]>>)],
                  <<"TotalSales", "Quantity", "Month">>,
                  [i \in DOMAIN top |-> ArtistGroupRow(d, top[i])])
     : s \in SortTotalSalesDesc(d, ArtistGroups(d))}

\* FROM genres g INNER JOIN tracks t ON t.GenreId = g.GenreId
GenreTracks(d, g) == {t \in DOMAIN d.tracks : d.tracks[t].GenreId = g}

\* A mutant of NumTracks: the count taken over invoice_items joined to the
\* tracks of the genre.
NumTracks_lineItems(d, g) ==
    Cardinality({k \in DOMAIN d.invoice_items :
                    d.invoice_items[k].TrackId \in GenreTracks(d, g)})

\* COUNT(t.GenreId) as NumTracks, of the group of genre g
NumTracks(d, g) == Cardinality(GenreTracks(d, g))

\* GROUP BY t.GenreId: the genres that have a track
GenreGroups(d) == {g \in DOMAIN d.genres : GenreTracks(d, g) # {}}

\* ORDER BY NumTracks DESC: the orders it may produce.
OrderNumTracksDesc(d, gs) ==
    {s \in Perms(gs) :
        \A i, j \in DOMAIN s : i < j => NumTracks(d, s[i]) >= NumTracks(d, s[j])}

\* get_tracks_by_genre: the frames it may return.
get_tracks_by_genre(d) ==
    {DataFrame("", RangeIndex(Len(s)), <<"Genre", "NumTracks">>,
               [i \in DOMAIN s |->
                   <<TextCell(<<d.genres[s[i]].Name>>), IntCell(NumTracks(d, s[i]))>>])
     : s \in OrderNumTracksDesc(d, GenreGroups(d))}

\* CAST(strftime('%m', i.InvoiceDate) as text) as Month
MonthKey(date) == strftime_m(date)

\* WHERE CAST(strftime('%Y', i.InvoiceDate) as text) = ?  with the integer
\* parameter year: TEXT affinity turns the parameter into its decimal text.
AnnualItems(year, d) ==
    {k \in InvoiceJoin(d) : strftime_Y(InvoiceDateOf(d, k)) = IntToText(year)}

get_annual_sales_by_month(year, d) ==
    LET S == AnnualItems(year, d)
        keys == SetToSeq({MonthKey(InvoiceDateOf(d, k)) : k \in S})
        G(key) == {k \in S : MonthKey(InvoiceDateOf(d, k)) = key}
    IN  DataFrame("", RangeIndex(Len(keys)), <<"Month", "Quantity", "TotalSales">>,
                  [i \in DOMAIN keys |->
                      << TextCell(keys[i]),
                         IntCell(SumSet(QuantityOf(d), G(keys[i]))),
                         FloatCell(SumSet(SalesOf(d), G(keys[i]))) >>])

\* A mutant of QuarterKey: FLOOR(month / 3) + 1.
QuarterKey_floorFirst(date) ==
    strftime_Y(date) \o <<"Q">> \o IntToText((TextToInt(strftime_m(date)) \div 3) + 1)

\* strftime('%Y', d) || 'Q' || FLOOR((strftime('%m', d) + 2) / 3): the month
\* text is coerced to an integer by +, / is integer division of integers,
\* FLOOR of an integer is that integer, || writes it in decimal.
QuarterKey(date) ==
    strftime_Y(date) \o <<"Q">> \o IntToText((TextToInt(strftime_m(date)) + 2) \div 3)

get_sales_by_quarter(d) ==
    LET S == InvoiceJoin(d)
        keys == SetToSeq({QuarterKey(InvoiceDateOf(d, k)) : k \in S})
        G(key) == {k \in S : QuarterKey(InvoiceDateOf(d, k)) = key}
    IN  DataFrame("", RangeIndex(Len(keys)), <<"Quarter", "Quantity", "TotalSales">>,
                  [i \in DOMAIN keys |->
                      << TextCell(keys[i]),
                         IntCell(SumSet(QuantityOf(d), G(keys[i]))),
                         FloatCell(SumSet(SalesOf(d), G(keys[i]))) >>])

\* strftime('%Y', i.InvoiceDate) as Year
YearKey(date) == strftime_Y(date)

get_sales_by_year(d) ==
    LET S == InvoiceJoin(d)
        keys == SetToSeq({YearKey(InvoiceDateOf(d, k)) : k \in S})
        G(key) == {k \in S : YearKey(InvoiceDateOf(d, k)) = key}
    IN  DataFrame("", RangeIndex(Len(keys)), <<"Year", "Quantity", "TotalSales">>,
                  [i \in DOMAIN keys |->
                      << TextCell(keys[i]),
                         IntCell(SumSet(QuantityOf(d), G(keys[i]))),
                         FloatCell(SumSet(SalesOf(d), G(keys[i]))) >>])

\* strftime('%Y') || "-" || strftime('%m') as Month
YearMonthKey(date) == strftime_Y(date) \o <<"-">> \o strftime_m(date)

\* get_sales_by_month_sql: ROUND(SUM(ii.Quantity), 2) is a REAL, held like
\* money in hundredths.
get_sales_by_month_sql(d) ==
    LET S == InvoiceJoin(d)
        keys == SetToSeq({YearMonthKey(InvoiceDateOf(d, k)) : k \in S})
        G(key) == {k \in S : YearMonthKey(InvoiceDateOf(d, k)) = key}
    IN  DataFrame("", RangeIndex(Len(keys)), <<"Quantity", "TotalSales", "Month">>,
                  [i \in DOMAIN keys |->
                      << FloatCell(100 * SumSet(QuantityOf(d), G(keys[i]))),
                         FloatCell(SumSet(SalesOf(d), G(keys[i]))),
                         TextCell(keys[i]) >>])

(***************************************************************************)
(* CSV output and its re-reading                                           *)
(***************************************************************************)
NoFile == [header |-> <<"none">>, lines |-> <<>>]

\* The text to_csv writes for one cell.
CellText(c) ==
    CASE c.kind = "int" -> IntToText(c.num)
      [] c.kind = "float" -> FloatToText(c.num)
      [] OTHER -> c.txt

\* frame.to_csv(path, index=False): a header row of the column names, then
\* one line per row; the index of the frame is not written.
to_csv(f) ==
    [header |-> f.columns,
     lines |-> [r \in DOMAIN f.rows |-> [c \in DOMAIN f.columns |-> CellText(f.rows[r][c])]]]

\* pd.read_csv(path): every column gets the narrowest type all its texts
\* parse as (integer, then float, else text), under a RangeIndex.
read_csv(file) ==
    LET allInt(c) == \A r \in DOMAIN file.lines : IsIntText(file.lines[r][c])
        allNum(c) == \A r \in DOMAIN file.lines :
                        IsIntText(file.lines[r][c]) \/ IsFloatText(file.lines[r][c])
        cell(r, c) ==
            LET t == file.lines[r][c] IN
            IF allInt(c) THEN IntCell(TextToInt(t))
            ELSE IF allNum(c)
                 THEN FloatCell(IF IsIntText(t) THEN 100 * TextToInt(t) ELSE TextToFloat(t))
                 ELSE TextCell(t)
    IN  DataFrame("", RangeIndex(Len(file.lines)), file.header,
                  [r \in DOMAIN file.lines |-> [c \in DOMAIN file.header |-> cell(r, c)]])

(***************************************************************************)
(* Bounded contents of the store                                           *)
(***************************************************************************)
Date(y, m) == [year |-> y, month |-> m]

Years == {2011, 2012, 2013}

Months == 1..12

AlbumTable == [a \in {1, 2, 3} |-> [ArtistId |-> a]]

GenreTable == (1 :> [Name |-> "Rock"]) @@ (2 :> [Name |-> "Jazz"]) @@ (3 :> [Name |-> "Metal"])

\* Artist names need not be unique and may be NULL.
NameTables ==
    { <<[Name |-> "AC/DC"], [Name |-> "Accept"], [Name |-> "Aerosmith"]>>,
      <<[Name |-> "AC/DC"], [Name |-> "Accept"], [Name |-> "AC/DC"]>>,
      <<[Name |-> "AC/DC"], [Name |-> NULL], [Name |-> "Aerosmith"]>>,
      <<[Name |-> "AC/DC"], [Name |-> "AC/DC"], [Name |-> "AC/DC"]>> }

Track(al, g) == [AlbumId |-> al, GenreId |-> g]

TrackTables ==
    { <<Track(1, 1), Track(2, 1), Track(3, 2)>>,
      <<Track(1, 1), Track(2, 2), Track(3, 2)>>,
      <<Track(1, 1), Track(2, 1), Track(3, 0)>>,
      <<Track(1, 1), Track(0, 1), Track(3, 2)>>,
      <<Track(1, 1), Track(2, 0), Track(3, 2)>> }

\* The unit price of a line item is the price of its track.
TrackPrice == <<99, 99, 199>>

ItemKinds(invoiceIds, trackIds) ==
    {[InvoiceId |-> i, TrackId |-> t, UnitPrice |-> TrackPrice[t], Quantity |-> q] :
        i \in invoiceIds, t \in trackIds, q \in {1, 2}}

ItemRank(r) == (r.InvoiceId * 4 + r.TrackId) * 3 + r.Quantity

\* The invoice_items tables of at most MaxItems rows, one per multiset of rows.
ItemTables(kinds) ==
    UNION {{s \in [1..n -> kinds] :
                \A i \in 1..(n - 1) : ItemRank(s[i]) <= ItemRank(s[i + 1])}
           : n \in 0..MaxItems}

Store(names, tracks, invoices, items) ==
    [artists |-> names, albums |-> AlbumTable, tracks |-> tracks, genres |-> GenreTable,
     invoices |-> invoices, invoice_items |-> items]

InvoiceTable == <<[InvoiceDate |-> Date(2011, 12)], [InvoiceDate |-> Date(2012, 1)]>>

\* Stores that vary the artists, the tracks and the line items.
CatalogStores ==
    {Store(n, t, InvoiceTable, s) :
        n \in NameTables, t \in TrackTables, s \in ItemTables(ItemKinds({1, 2}, {1, 2, 3}))}

\* Stores that vary the invoice dates over every month of three years.
DatedStores ==
    {Store(<<[Name |-> "AC/DC"], [Name |-> "Accept"], [Name |-> "Aerosmith"]>>,
           <<Track(1, 1), Track(2, 1), Track(3, 2)>>,
           <<[InvoiceDate |-> Date(y, m)], [InvoiceDate |-> d2]>>, s) :
        y \in Years, m \in Months, d2 \in {Date(2012, 2), Date(2011, 11)},
        s \in ItemTables(ItemKinds({1, 2}, {1}))}

\* Stores with line items of an invoice that does not exist (SQLite does
\* not enforce foreign keys unless asked to).
OrphanStores ==
    {Store(<<[Name |-> "AC/DC"], [Name |-> "Accept"], [Name |-> "Aerosmith"]>>,
           <<Track(1, 1), Track(2, 1), Track(3, 2)>>, InvoiceTable, s) :
        s \in ItemTables(ItemKinds({1, 3}, {1, 2}))}

\* Stores of the runs of main.
RunStores ==
    {Store(n, <<Track(1, 1), Track(2, 1), Track(3, 2)>>, InvoiceTable, s) :
        n \in NameTables, s \in ItemTables(ItemKinds({1, 2}, {1, 2, 3}))}

(***************************************************************************)
(* State                                                                   *)
(***************************************************************************)
VARIABLES
    db,         \* the contents of the database file
    dbFile,     \* whether the configured database file path exists
    pc,         \* where main is: [at, i], i the report of an extract or write step
    conn,       \* the connection of main: "none", "open" or "closed"
    closeCount, \* how many times conn.close() has run
    log,        \* the log stream: the records written so far
    frames,     \* the Report Result of each report, NoFrame before its extraction
    files,      \* the CSV file of each report, NoFile before it is written
    exitCode,   \* exit status of the process, -1 while it runs
    steps,      \* history: the extract and write steps run so far, with their outcome
    qcall,      \* the query function called last on its own, with its argument
    qresult     \* the frame that call returned

vars == <<db, dbFile, pc, conn, closeCount, log, frames, files, exitCode, steps,
          qcall, qresult>>

runVars == <<dbFile, pc, conn, closeCount, log, frames, files, exitCode, steps>>

(***************************************************************************)
(* main                                                                    *)
(***************************************************************************)
year == 2012

num_results == 7

\* sys.exit() with no argument: exit status 0.
sys_exit_status == 0

\* An exception that leaves main uncaught ends the interpreter with status 1.
uncaught_exception_status == 1

Info(msg) == [level |-> "INFO", msg |-> msg]

Error(msg) == [level |-> "ERROR", msg |-> msg]

At(at, i) == [at |-> at, i |-> i]

\* The six reports of main, in the order of its text.
Reports ==
    << [fn |-> "get_top_artists_by_sales", arg |-> 10,
        extractMsg |-> "Extracting top 10 Artists by TotalSales",
        saveMsg |-> "Saving sales by artist data as CSV",
        key |-> "ArtistName"],
       [fn |-> "get_tracks_by_genre", arg |-> 0,
        extractMsg |-> "Extracting tracks by genre",
        saveMsg |-> "Saving tracks by genre data as CSV",
        key |-> "Genre"],
       [fn |-> "get_annual_sales_by_month", arg |-> year,
        extractMsg |-> "Extracting sales by month for 2012",
        saveMsg |-> "Saving 2012 sales data as CSV",
        key |-> "Month"],
       [fn |-> "get_sales_by_quarter", arg |-> 0,
        extractMsg |-> "Extracting sales by quarter",
        saveMsg |-> "Saving sales by quarter data as CSV",
        key |-> "Quarter"],
       [fn |-> "get_top_artists_by_sales", arg |-> num_results,
        extractMsg |-> "Extracting top 7 artists by sales",
        saveMsg |-> "Saving top 7 artists  by sales as CSV",
        key |-> "ArtistName"],
       [fn |-> "get_sales_by_year", arg |-> 0,
        extractMsg |-> "Extracting sales by year",
        saveMsg |-> "Saving sales by year data as CSV",
        key |-> "Year"] >>

\* The frames a call of query function fn with argument arg may return.
CallQuery(fn, arg, d) ==
    CASE fn = "get_top_artists_by_sales" -> get_top_artists_by_sales(arg, d)
      [] fn = "get_tracks_by_genre" -> get_tracks_by_genre(d)
      [] fn = "get_annual_sales_by_month" -> {get_annual_sales_by_month(arg, d)}
      [] fn = "get_sales_by_quarter" -> {get_sales_by_quarter(d)}
      [] fn = "get_sales_by_year" -> {get_sales_by_year(d)}
      [] fn = "get_sales_by_month_sql" -> {get_sales_by_month_sql(d)}

\* A mutant of create_connection: no check that the file exists
\* (sqlite3.connect creates a missing file).
create_connection_noExistsCheck(exists, connectOk) ==
    IF ~connectOk
    THEN [conn |-> "none", log |-> <<Error("sqlite3.Error")>>, exited |-> TRUE]
    ELSE [conn |-> "open", log |-> <<>>, exited |-> FALSE]

\* create_connection: what it logs, and whether it returns a connection or
\* ends the process.
create_connection(exists, connectOk) ==
    IF ~exists
    THEN [conn |-> "none", log |-> <<Error("database file not found")>>, exited |-> TRUE]
    ELSE IF ~connectOk
         THEN [conn |-> "none", log |-> <<Error("sqlite3.Error")>>, exited |-> TRUE]
         ELSE [conn |-> "open", log |-> <<>>, exited |-> FALSE]

\* An exception raised inside the with block: the connection's __exit__
\* rolls back and lets it through, conn.close() and the rest of main are
\* skipped, the process ends.
Raised == At("aborted", 0)

\* The step of main that follows the write of report i.
AfterWrite(i) == IF i < Len(Reports) THEN At("extract", i + 1) ELSE At("close", 0)

\* One extraction of main: the INFO line, then the query function, which
\* returns frame f or raises.
ExtractStep(i, ok, f) ==
    [log |-> Append(log, Info(Reports[i].extractMsg)),
     frames |-> IF ok THEN [frames EXCEPT ![i] = f] ELSE frames,
     pc |-> IF ok THEN At("write", i) ELSE Raised]

\* A mutant of WriteStep: a failed write is caught and main goes on.
WriteStep_continue(i, ok) ==
    [log |-> Append(log, Info(Reports[i].saveMsg)),
     files |-> IF ok THEN [files EXCEPT ![i] = to_csv(frames[i])] ELSE files,
     pc |-> AfterWrite(i)]

\* A mutant of WriteStep: the INFO line is logged after to_csv has returned.
WriteStep_logAfter(i, ok) ==
    [log |-> IF ok THEN Append(log, Info(Reports[i].saveMsg)) ELSE log,
     files |-> IF ok THEN [files EXCEPT ![i] = to_csv(frames[i])] ELSE files,
     pc |-> IF ok THEN AfterWrite(i) ELSE Raised]

\* One save of main: the INFO line, then to_csv, which writes the file or
\* raises.
WriteStep(i, ok) ==
    [log |-> Append(log, Info(Reports[i].saveMsg)),
     files |-> IF ok THEN [files EXCEPT ![i] = to_csv(frames[i])] ELSE files,
     pc |-> IF ok THEN AfterWrite(i) ELSE Raised]

\* main up to create_connection: get_config (which may raise before any
\* logging exists), configure_logging, the first INFO line.
Start ==
    /\ pc = At("init", 0)
    /\ \E ok \in BOOLEAN :
        IF ok
        THEN /\ log' = Append(log, Info("Starting data pipeline process"))
             /\ pc' = At("connect", 0)
             /\ exitCode' = exitCode
        ELSE /\ log' = log
             /\ pc' = At("aborted", 0)
             /\ exitCode' = uncaught_exception_status
    /\ UNCHANGED <<db, dbFile, conn, closeCount, frames, files, steps, qcall, qresult>>

\* conn = create_connection(cfg), then entering the with block and its
\* first INFO line.
Connect ==
    /\ pc = At("connect", 0)
    /\ \E connectOk \in BOOLEAN :
        LET r == create_connection(dbFile, connectOk) IN
        IF r.exited
        THEN /\ log' = log \o r.log
             /\ pc' = At("exited", 0)
             /\ exitCode' = sys_exit_status
             /\ conn' = conn
        ELSE /\ log' = (log \o r.log) \o <<Info("Extracting sales data from database")>>
             /\ pc' = At("extract", 1)
             /\ exitCode' = exitCode
             /\ conn' = r.conn
    /\ UNCHANGED <<db, dbFile, closeCount, frames, files, steps, qcall, qresult>>

Extract ==
    /\ pc.at = "extract"
    /\ \E ok \in BOOLEAN : \E f \in CallQuery(Reports[pc.i].fn, Reports[pc.i].arg, db) :
        LET r == ExtractStep(pc.i, ok, f) IN
        /\ log' = r.log
        /\ frames' = r.frames
        /\ pc' = r.pc
        /\ exitCode' = IF r.pc.at = "aborted" THEN uncaught_exception_status ELSE exitCode
        /\ steps' = Append(steps, [op |-> "extract", i |-> pc.i, ok |-> ok])
    /\ UNCHANGED <<db, dbFile, conn, closeCount, files, qcall, qresult>>

Write ==
    /\ pc.at = "write"
    /\ \E ok \in BOOLEAN :
        LET r == WriteStep(pc.i, ok) IN
        /\ log' = r.log
        /\ files' = r.files
        /\ pc' = r.pc
        /\ exitCode' = IF r.pc.at = "aborted" THEN uncaught_exception_status ELSE exitCode
        /\ steps' = Append(steps, [op |-> "write", i |-> pc.i, ok |-> ok])
    /\ UNCHANGED <<db, dbFile, conn, closeCount, frames, qcall, qresult>>

\* Leaving the with block normally (commit), conn.close(), the two last
\* INFO lines, and the normal end of the process.
Close ==
    /\ pc = At("close", 0)
    /\ conn' = "closed"
    /\ closeCount' = closeCount + 1
    /\ log' = log \o <<Info("Pipeline completed in %2.2f seconds"),
                       Info("Finishing data pipeline process")>>
    /\ pc' = At("done", 0)
    /\ exitCode' = 0
    /\ UNCHANGED <<db, dbFile, frames, files, steps, qcall, qresult>>

NoCall == [fn |-> "none", arg |-> 0]

Init ==
    /\ db \in RunStores
    /\ dbFile \in BOOLEAN
    /\ pc = At("init", 0)
    /\ conn = "none"
    /\ closeCount = 0
    /\ log = <<>>
    /\ frames = [i \in DOMAIN Reports |-> NoFrame]
    /\ files = [i \in DOMAIN Reports |-> NoFile]
    /\ exitCode = -1
    /\ steps = <<>>
    /\ qcall = NoCall
    /\ qresult = NoFrame

Next == Start \/ Connect \/ Extract \/ Write \/ Close

Spec == Init /\ [][Next]_vars

(***************************************************************************)
(* The query functions called on their own: one call on a store.  They are *)
(* pure, so a second call adds nothing.                                    *)
(***************************************************************************)
QTopArtists ==
    /\ qcall = NoCall
    /\ \E n \in 1..MaxN : \E f \in CallQuery("get_top_artists_by_sales", n, db) :
        /\ qcall' = [fn |-> "get_top_artists_by_sales", arg |-> n]
        /\ qresult' = f
    /\ UNCHANGED <<db, runVars>>

QTracksByGenre ==
    /\ qcall = NoCall
    /\ \E f \in CallQuery("get_tracks_by_genre", 0, db) :
        /\ qcall' = [fn |-> "get_tracks_by_genre", arg |-> 0]
        /\ qresult' = f
    /\ UNCHANGED <<db, runVars>>

QAnnualSalesByMonth ==
    /\ qcall = NoCall
    /\ \E y \in Years : \E f \in CallQuery("get_annual_sales_by_month", y, db) :
        /\ qcall' = [fn |-> "get_annual_sales_by_month", arg |-> y]
        /\ qresult' = f
    /\ UNCHANGED <<db, runVars>>

QSalesByQuarter ==
    /\ qcall = NoCall
    /\ \E f \in CallQuery("get_sales_by_quarter", 0, db) :
        /\ qcall' = [fn |-> "get_sales_by_quarter", arg |-> 0]
        /\ qresult' = f
    /\ UNCHANGED <<db, runVars>>

QSalesByYear ==
    /\ qcall = NoCall
    /\ \E f \in CallQuery("get_sales_by_year", 0, db) :
        /\ qcall' = [fn |-> "get_sales_by_year", arg |-> 0]
        /\ qresult' = f
    /\ UNCHANGED <<db, runVars>>

QSalesByMonthSql ==
    /\ qcall = NoCall
    /\ \E f \in CallQuery("get_sales_by_month_sql", 0, db) :
        /\ qcall' = [fn |-> "get_sales_by_month_sql", arg |-> 0]
        /\ qresult' = f
    /\ UNCHANGED <<db, runVars>>

QueryInit ==
    /\ db \in CatalogStores \cup DatedStores \cup OrphanStores
    /\ dbFile = TRUE
    /\ pc = At("init", 0)
    /\ conn = "none"
    /\ closeCount = 0
    /\ log = <<>>
    /\ frames = [i \in DOMAIN Reports |-> NoFrame]
    /\ files = [i \in DOMAIN Reports |-> NoFile]
    /\ exitCode = -1
    /\ steps = <<>>
    /\ qcall = NoCall
    /\ qresult = NoFrame

QueryNext ==
    \/ QTopArtists
    \/ QTracksByGenre
    \/ QAnnualSalesByMonth
    \/ QSalesByQuarter
    \/ QSalesByYear
    \/ QSalesByMonthSql

QuerySpec == QueryInit /\ [][QueryNext]_vars

(***************************************************************************)
(* Properties of main                                                      *)
(***************************************************************************)
Ended == pc.at \in {"done", "aborted", "exited"}

Attempted(op, i) == \E k \in DOMAIN steps : steps[k].op = op /\ steps[k].i = i

Failed(op, i) == \E k \in DOMAIN steps : steps[k].op = op /\ steps[k].i = i /\ ~steps[k].ok

ExtractLogged(i) == \E k \in DOMAIN log : log[k] = Info(Reports[i].extractMsg)

SaveLogged(i) == \E k \in DOMAIN log : log[k] = Info(Reports[i].saveMsg)

ErrorLogged == \E k \in DOMAIN log : log[k].level = "ERROR"

\* C1: in every run of main that got a connection from create_connection,
\* the connection has been closed exactly once when the run has ended, on
\* every exit path: after all six reports, and after a query function or a
\* CSV write raised.
C1_ClosedExactlyOnce == (Ended /\ conn # "none") => closeCount = 1

\* C2: when the database file path does not exist, create_connection logs
\* an ERROR and the run ends there: no connection is returned to main, no
\* query function runs and no CSV file is written.
C2_MissingDatabaseStopsRun ==
    ~dbFile =>
        /\ conn = "none"
        /\ steps = <<>>
        /\ \A i \in DOMAIN Reports : frames[i] = NoFrame /\ files[i] = NoFile
        /\ pc.at \in {"init", "connect", "exited", "aborted"}
        /\ pc.at = "exited" =>
              \E k \in DOMAIN log : log[k] = Error("database file not found")
        /\ pc.at = "aborted" => log = <<>>

\* C2, witness: a run on a missing database file that has been through
\* create_connection.
C2_Witness == ~dbFile /\ pc.at = "exited" /\ ErrorLogged

\* The order of the report substates the claim C3 names.
C3_Order ==
    << <<"get_top_artists_by_sales", 10>>, <<"get_tracks_by_genre", 0>>,
       <<"get_annual_sales_by_month", 2012>>, <<"get_sales_by_quarter", 0>>,
       <<"get_top_artists_by_sales", 7>>, <<"get_sales_by_year", 0>> >>

\* C3: the report substates run in one fixed order, each as extract then
\* write; a step runs only if every earlier step succeeded, so after a
\* failure nothing more is extracted or written, nothing is retried, and
\* the run does not reach DONE.
C3_FixedOrderFailFast ==
    /\ Len(steps) <= 2 * Len(C3_Order)
    /\ \A k \in DOMAIN steps :
        /\ steps[k].op = (IF k % 2 = 1 THEN "extract" ELSE "write")
        /\ steps[k].i = (k + 1) \div 2
        /\ <<Reports[steps[k].i].fn, Reports[steps[k].i].arg>> = C3_Order[(k + 1) \div 2]
        /\ k < Len(steps) => steps[k].ok
        /\ steps[k].op = "extract" => (steps[k].ok <=> frames[steps[k].i] # NoFrame)
        /\ steps[k].op = "write" => (steps[k].ok <=> files[steps[k].i] # NoFile)
    /\ \A i \in DOMAIN Reports :
        /\ frames[i] # NoFrame => \E k \in DOMAIN steps : steps[k] = [op |-> "extract", i |-> i, ok |-> TRUE]
        /\ files[i] # NoFile => \E k \in DOMAIN steps : steps[k] = [op |-> "write", i |-> i, ok |-> TRUE]
    /\ (\E k \in DOMAIN steps : ~steps[k].ok) => (pc.at = "aborted" /\ ~ENABLED Next)
    /\ pc.at = "done" =>
          (Len(steps) = 2 * Len(C3_Order) /\ \A k \in DOMAIN steps : steps[k].ok)

\* C3, witness: a run in which the extraction of the third report failed
\* after two reports had been written.
C3_Witness ==
    /\ Len(steps) = 5
    /\ ~steps[5].ok
    /\ files[2] # NoFile
    /\ pc.at = "aborted"

\* The grouping key of every row of a frame: its index or its column of
\* that name; no cells when the frame has neither.
KeyCells(f, key) ==
    IF f.indexName = key THEN f.index
    ELSE IF ColumnPos(f, key) # 0 THEN Column(f, key) ELSE <<>>

\* The same value, whatever its type: '01' and 1, '2012' and 2012.
SameValue(a, b) ==
    \/ CellText(a) = CellText(b)
    \/ /\ IsIntText(CellText(a))
       /\ IsIntText(CellText(b))
       /\ TextToInt(CellText(a)) = TextToInt(CellText(b))

SameCells(s, t) == Len(s) = Len(t) /\ \A r \in DOMAIN s : SameValue(s[r], t[r])

\* C6: for every Report Result main has written, re-reading the CSV file
\* gives the grouping keys (Artist, Genre, Month, Quarter, Year) and the
\* numeric aggregates of the frame in memory; in particular every row of a
\* top-N artist report has its artist name in the file.
C6_CsvRoundTrip ==
    \A i \in DOMAIN Reports :
        files[i] # NoFile =>
            LET g == read_csv(files[i]) IN
            /\ SameCells(KeyCells(frames[i], Reports[i].key), KeyCells(g, Reports[i].key))
            /\ \A c \in {"Quantity", "TotalSales", "NumTracks"} :
                  ColumnPos(frames[i], c) # 0 =>
                      /\ ColumnPos(g, c) # 0
                      /\ SameCells(Column(frames[i], c), Column(g, c))

\* C7: a run ended by a fatal connection error has a non-zero exit status,
\* a run that completes all reports has exit status zero.
C7_ExitCodes ==
    /\ pc.at = "exited" => exitCode # 0
    /\ pc.at = "done" => exitCode = 0

\* C8 as stated: the INFO line of an extraction is logged when it starts,
\* and the INFO line about saving is logged only when the CSV write has
\* completed.
C8_SaveLoggedAfterWrite ==
    \A i \in DOMAIN Reports :
        /\ Attempted("extract", i) => ExtractLogged(i)
        /\ SaveLogged(i) => files[i] # NoFile

\* C8, amended: the INFO line of an extraction is logged when it starts;
\* the INFO line about saving is logged when the save starts, that is once
\* the extraction has succeeded and before the CSV write is attempted,
\* whether or not the write then succeeds: a run whose CSV write fails has
\* the INFO save line of that report and no file.
C8_SaveLoggedBeforeWrite ==
    \A i \in DOMAIN Reports :
        /\ ExtractLogged(i) <=> Attempted("extract", i)
        /\ SaveLogged(i) <=> Attempted("write", i)
        /\ Attempted("write", i) => frames[i] # NoFrame
        /\ Failed("write", i) => (SaveLogged(i) /\ files[i] = NoFile)
        /\ Failed("extract", i) => ~SaveLogged(i)

\* C8, witness: a run whose CSV write of some report failed.
C8_Witness ==
    \E i \in DOMAIN Reports : Failed("write", i) /\ SaveLogged(i) /\ pc.at = "aborted"

(***************************************************************************)
(* Properties of the query functions.  They state what a result must be    *)
(* from the rows of the store, not from the operators above.               *)
(***************************************************************************)
Items == DOMAIN db.invoice_items

Item(k) == db.invoice_items[k]

\* Sum of Quantity over the line items S.
Qty(S) == SumSet([k \in Items |-> Item(k).Quantity], S)

\* Sum of UnitPrice * Quantity over the line items S, in cents.
Sales(S) == SumSet([k \in Items |-> Item(k).UnitPrice * Item(k).Quantity], S)

\* The line items joined to an invoice, a track, an album and an artist.
Joined ==
    {k \in Items :
        /\ Item(k).InvoiceId \in DOMAIN db.invoices
        /\ Item(k).TrackId \in DOMAIN db.tracks
        /\ db.tracks[Item(k).TrackId].AlbumId \in DOMAIN db.albums}

ArtistIdOfItem(k) == db.albums[db.tracks[Item(k).TrackId].AlbumId].ArtistId

ItemsOfArtist(a) == {k \in Joined : ArtistIdOfItem(k) = a}

ItemsOfName(n) == {k \in Joined : db.artists[ArtistIdOfItem(k)].Name = n}

\* The line items that have their invoice.
Invoiced == {k \in Items : Item(k).InvoiceId \in DOMAIN db.invoices}

DateOfItem(k) == db.invoices[Item(k).InvoiceId].InvoiceDate

\* A number cell in hundredths.
Hundredths(c) == IF c.kind = "float" THEN c.num ELSE 100 * c.num

ColumnSum(f, c) ==
    SumSet([r \in DOMAIN f.rows |-> Hundredths(Column(f, c)[r])], DOMAIN f.rows)

NonIncreasing(cells) ==
    \A i, j \in DOMAIN cells : i < j => Hundredths(cells[i]) >= Hundredths(cells[j])

Smaller(a, b) == IF a < b THEN a ELSE b

\* The artist names in the index of the frame.
ReturnedNames(f) == {f.index[r].txt[1] : r \in DOMAIN f.index}

\* C4 as stated: get_top_artists_by_sales(N) returns at most N rows,
\* exactly min(N, number of artists with a joined line item), TotalSales
\* non-increasing, and every artist left out sold no more than the last row.
C4_TopArtistsPerArtist ==
    qcall.fn = "get_top_artists_by_sales" =>
        LET withItems == {a \in DOMAIN db.artists : ItemsOfArtist(a) # {}}
            n == Len(qresult.rows)
        IN  /\ n <= qcall.arg
            /\ n = Smaller(qcall.arg, Cardinality(withItems))
            /\ NonIncreasing(Column(qresult, "TotalSales"))
            /\ \A a \in withItems :
                  db.artists[a].Name \notin ReturnedNames(qresult) =>
                      Sales(ItemsOfArtist(a)) <= Hundredths(qresult.rows[n][1])

\* C4, amended: get_top_artists_by_sales(N) returns one row per artist
\* name (artists of the same name are summed into one row, line items of an
\* artist without a name are left out), exactly min(N, number of distinct
\* non-null artist names with a joined line item) rows, hence at most N,
\* TotalSales non-increasing from first to last, and every artist name left
\* out has TotalSales no greater than the last returned row.
C4_TopArtistsPerName ==
    qcall.fn = "get_top_artists_by_sales" =>
        LET names == {db.artists[ArtistIdOfItem(k)].Name : k \in Joined} \ {NULL}
            n == Len(qresult.rows)
        IN  /\ n <= qcall.arg
            /\ n = Smaller(qcall.arg, Cardinality(names))
            /\ Len(qresult.index) = n
            /\ ReturnedNames(qresult) \subseteq names
            /\ Cardinality(ReturnedNames(qresult)) = n
            /\ \A r \in DOMAIN qresult.rows :
                  /\ Column(qresult, "TotalSales")[r] =
                        FloatCell(Sales(ItemsOfName(qresult.index[r].txt[1])))
                  /\ Column(qresult, "Quantity")[r] =
                        IntCell(Qty(ItemsOfName(qresult.index[r].txt[1])))
            /\ NonIncreasing(Column(qresult, "TotalSales"))
            /\ \A m \in names \ ReturnedNames(qresult) :
                  Sales(ItemsOfName(m)) <= Hundredths(qresult.rows[n][1])

\* C4, witness: a call that returned N rows and left out an artist name
\* that sold less than the last row.
C4_Witness ==
    /\ qcall.fn = "get_top_artists_by_sales"
    /\ Len(qresult.rows) = qcall.arg
    /\ \E k \in Joined :
          /\ db.artists[ArtistIdOfItem(k)].Name \notin ReturnedNames(qresult) \cup {NULL}
          /\ Sales(ItemsOfName(db.artists[ArtistIdOfItem(k)].Name))
                < Hundredths(qresult.rows[Len(qresult.rows)][1])

SalesReports ==
    {"get_top_artists_by_sales", "get_annual_sales_by_month", "get_sales_by_quarter",
     "get_sales_by_year", "get_sales_by_month_sql"}

\* C5 as stated: for every sales report, the Quantity values of the result
\* sum to the Quantity of all line items of the database.
C5_QuantityOfAllItems ==
    qcall.fn \in SalesReports => ColumnSum(qresult, "Quantity") = 100 * Qty(Items)

\* C5, amended: the Quantity values of a result sum to the Quantity of the
\* line items the report covers, none dropped and none counted twice:
\* all line items that have their invoice for sales by quarter, by year
\* and by month; those invoiced in the requested year for annual sales by
\* month; those of the returned artist names for top-N artists.
C5_QuantityOfCoveredItems ==
    /\ qcall.fn \in {"get_sales_by_quarter", "get_sales_by_year", "get_sales_by_month_sql"} =>
          ColumnSum(qresult, "Quantity") = 100 * Qty(Invoiced)
    /\ qcall.fn = "get_annual_sales_by_month" =>
          ColumnSum(qresult, "Quantity") =
              100 * Qty({k \in Invoiced : DateOfItem(k).year = qcall.arg})
    /\ qcall.fn = "get_top_artists_by_sales" =>
          ColumnSum(qresult, "Quantity") =
              100 * Qty(UNION {ItemsOfName(m) : m \in ReturnedNames(qresult)})

\* C5, witness: an annual report that covers some line items of the store
\* and not others.
C5_Witness ==
    /\ qcall.fn = "get_annual_sales_by_month"
    /\ ColumnSum(qresult, "Quantity") > 0
    /\ ColumnSum(qresult, "Quantity") < 100 * Qty(Items)

\* The genre a row of the tracks-by-genre result names.
GenreOfRow(r) ==
    CHOOSE g \in DOMAIN db.genres : <<db.genres[g].Name>> = Column(qresult, "Genre")[r].txt

LineItemsOfGenre(g) == {k \in Items : db.tracks[Item(k).TrackId].GenreId = g}

TracksOfGenre(g) == {t \in DOMAIN db.tracks : db.tracks[t].GenreId = g}

\* C9 as stated: get_tracks_by_genre gives, for each genre, the number of
\* line items whose track is of that genre, rows ordered by it descending.
C9_LineItemsByGenre ==
    qcall.fn = "get_tracks_by_genre" =>
        /\ \A r \in DOMAIN qresult.rows :
              Column(qresult, "NumTracks")[r] =
                  IntCell(Cardinality(LineItemsOfGenre(GenreOfRow(r))))
        /\ NonIncreasing(Column(qresult, "NumTracks"))

\* C9, amended: get_tracks_by_genre gives, for each genre that has a
\* track, one row with the number of tracks (rows of tracks, whether sold
\* or not) of that genre, rows ordered by that number descending.
C9_TracksByGenre ==
    qcall.fn = "get_tracks_by_genre" =>
        /\ {GenreOfRow(r) : r \in DOMAIN qresult.rows} =
              {g \in DOMAIN db.genres : TracksOfGenre(g) # {}}
        /\ Len(qresult.rows) =
              Cardinality({g \in DOMAIN db.genres : TracksOfGenre(g) # {}})
        /\ \A r \in DOMAIN qresult.rows :
              /\ Column(qresult, "Genre")[r].kind = "text"
              /\ \E g \in DOMAIN db.genres :
                    <<db.genres[g].Name>> = Column(qresult, "Genre")[r].txt
              /\ Column(qresult, "NumTracks")[r] =
                    IntCell(Cardinality(TracksOfGenre(GenreOfRow(r))))
        /\ NonIncreasing(Column(qresult, "NumTracks"))

\* C9, witness: a result of two genres with different numbers of tracks,
\* on a store whose line items number differently.
C9_Witness ==
    /\ qcall.fn = "get_tracks_by_genre"
    /\ Len(qresult.rows) = 2
    /\ qresult.rows[1][2].num > qresult.rows[2][2].num
    /\ Items # {}
    /\ \E r \in DOMAIN qresult.rows :
          Cardinality(LineItemsOfGenre(GenreOfRow(r))) # qresult.rows[r][2].num

\* The quarter of each month of the year.
QuarterOfMonth == <<1, 1, 1, 2, 2, 2, 3, 3, 3, 4, 4, 4>>

\* The label of the claim C10: YYYY, then Q, then the quarter.
QuarterLabel(date) ==
    IntToText(date.year) \o <<"Q">> \o <<DigitChar(QuarterOfMonth[date.month])>>

\* The row of the quarter result that holds line item k.
QuarterRows(k) ==
    {r \in DOMAIN qresult.rows :
        Column(qresult, "Quarter")[r] = TextCell(QuarterLabel(DateOfItem(k)))}

\* C10: get_sales_by_quarter puts every invoiced line item, of month m and year
\* YYYY, in the one group labelled YYYY Q (m+2) div 3, a quarter in 1..4
\* (months 1-3 Q1, 4-6 Q2, 7-9 Q3, 10-12 Q4); every group sums exactly its
\* line items, and line items of the same quarter of different years are in
\* different groups.
C10_QuarterGroups ==
    qcall.fn = "get_sales_by_quarter" =>
        /\ \A k \in Invoiced :
              /\ QuarterOfMonth[DateOfItem(k).month] = (DateOfItem(k).month + 2) \div 3
              /\ QuarterOfMonth[DateOfItem(k).month] \in 1..4
              /\ Cardinality(QuarterRows(k)) = 1
        /\ \A r \in DOMAIN qresult.rows :
              LET g == {k \in Invoiced : r \in QuarterRows(k)} IN
              /\ g # {}
              /\ Column(qresult, "Quantity")[r] = IntCell(Qty(g))
              /\ Column(qresult, "TotalSales")[r] = FloatCell(Sales(g))
        /\ \A k1, k2 \in Invoiced :
              DateOfItem(k1).year # DateOfItem(k2).year => QuarterRows(k1) # QuarterRows(k2)

\* C10, witness: a result with two line items of the same quarter of
\* different years, in a month that is not the first of its quarter.
C10_Witness ==
    /\ qcall.fn = "get_sales_by_quarter"
    /\ Len(qresult.rows) = 2
    /\ \E k1, k2 \in Invoiced :
          /\ DateOfItem(k1).year # DateOfItem(k2).year
          /\ QuarterOfMonth[DateOfItem(k1).month] = QuarterOfMonth[DateOfItem(k2).month]
          /\ DateOfItem(k1).month # DateOfItem(k2).month
          /\ DateOfItem(k1).month = 12

====
